---- MODULE Spec2Model ----
(***************************************************************************)
(* Model of the follow-the-light-task repository: the three tasks          *)
(* (Habituation, FollowTheLight, Simple) that build a Bpod state machine   *)
(* per trial, and the TrainingProtocol that updates the subject's settings *)
(* after every session.                                                    *)
(*                                                                         *)
(* Volumes are in hundredths of a millilitre (0.08 ml is 8), accuracies    *)
(* are kept as (number of correct trials, number of trials).               *)
(***************************************************************************)
EXTENDS Integers, Sequences, FiniteSets, TLC

VARIABLES
    settings,           \* the subject's Settings record (self.settings)
    df,                 \* the subject's session history, oldest first (self.df)
    last_task,          \* name of the task that just finished (self.last_task)
    tpc,                \* position of the training protocol: "idle" | "update"
                        \* | "again" (run a second time on the same history)
    name,               \* class name of the running task, "none" between runs
    pc,                 \* position of the task's life cycle
    self,               \* attributes the task sets on itself
    bpod,               \* the state machine under construction / running
    trial_data,         \* what the executor reports about the current trial
    registered,         \* values registered by after_trial for the last trial
    current_trial,      \* trial number, starting from 1
    water_calibration,  \* calibrated ports and their coefficient
    error,              \* exception that ended the task, "none" otherwise
    event_list,         \* find_first_occurrence: the list of events passed
    targets,            \* find_first_occurrence: the list of targets passed
    found               \* find_first_occurrence: value returned, "unset" before

vars == <<settings, df, last_task, tpc, name, pc, self, bpod, trial_data,
          registered, current_trial, water_calibration, error,
          event_list, targets, found>>

\* the call of the helper on its own; no other operation touches it
findVars == <<event_list, targets, found>>

taskVars == <<name, pc, self, bpod, trial_data, registered, current_trial,
              water_calibration, error, findVars>>

trainingVars == <<df, last_task, tpc, findVars>>

-----------------------------------------------------------------------------
(* Bounds of the model *)

\* port entries logged in one trial
MaxEvents == 3
\* trials of one task run
MaxTrials == 2
\* stage values a settings record may hold are 1..MaxStage
MaxStage == 3
\* sessions recorded in the history
MaxSessions == 4
\* length of an event list handed to find_first_occurrence
MaxLog == 3
\* length of a target list handed to find_first_occurrence
MaxTargets == 2

-----------------------------------------------------------------------------
(* The closed vocabulary of the tasks *)

Tasks == {"Habituation", "FollowTheLight", "Simple"}

PortEvents == {"Port1In", "Port2In", "Port3In"}

TrialTypes == <<"left_easy", "right_easy", "left_hard", "right_hard">>

Range(s) == {s[i] : i \in DOMAIN s}

\* Python's  "left" in trial_type  on the trial types of the protocol
HasLeft(tt) == tt \in {"left_easy", "left_hard"}

\* Python's  "right" in trial_type
HasRight(tt) == tt \in {"right_easy", "right_hard"}

\* Python's  "hard" in trial_type
HasHard(tt) == tt \in {"left_hard", "right_hard"}

-----------------------------------------------------------------------------
(* TrainingProtocol.default_training_settings *)

default_reward_amount_ml == 8

default_stage == 1

light_intensity_high == 255

light_intensity_low == 50

default_training_settings ==
    [ next_task            |-> "Habituation",
      refractary_period    |-> 3600 * 4,
      minimum_duration     |-> 600,
      maximum_duration     |-> 900,
      reward_amount_ml     |-> default_reward_amount_ml,
      stage                |-> default_stage,
      light_intensity_high |-> light_intensity_high,
      light_intensity_low  |-> light_intensity_low,
      trial_types          |-> TrialTypes,
      punishment_time      |-> 1,
      iti_time             |-> 2,
      response_time        |-> 10 ]

\* Keys a stored settings record may carry beyond the defaults: the tasks read
\* timer_for_response (FollowTheLight) and delay, mylist (Simple).
ExtraKeys == {"timer_for_response", "delay", "mylist"}

ExtraValue(k) ==
    CASE k = "timer_for_response" -> 10
      [] k = "delay"              -> 2
      [] k = "mylist"             -> <<>>

\* record r extended (or overwritten) with key k holding v
WithKey(r, k, v) ==
    [x \in DOMAIN r \cup {k} |-> IF x = k THEN v ELSE r[x]]

RECURSIVE WithExtras(_, _)
WithExtras(r, ks) ==
    IF ks = {} THEN r
    ELSE LET k == CHOOSE x \in ks : TRUE
         IN  WithExtras(WithKey(r, k, ExtraValue(k)), ks \ {k})

-----------------------------------------------------------------------------
(* Valve calibration: get_valve_time(port, volume) *)

CalibrationCoefficient(port) == IF port = 1 THEN 10 ELSE 12

Calibrated(port) == port \in DOMAIN water_calibration

get_valve_time(port, volume) == water_calibration[port] * volume

-----------------------------------------------------------------------------
(* The task object *)

NoAttributes ==
    [ left_valve_opening_time  |-> "unset",
      right_valve_opening_time |-> "unset",
      punish_condition         |-> "unset",
      this_trial_type          |-> "unset",
      stimulus_state_output    |-> "unset",
      left_poke_action         |-> "unset",
      right_poke_action        |-> "unset",
      valve_to_open            |-> "unset",
      valve_opening_time       |-> "unset",
      hola                     |-> "unset",
      delay                    |-> "unset" ]

EmptyBpod == [states |-> <<>>, current |-> "none"]

\* ordered_list_of_events is the event log; visited lists the states entered,
\* each with the event that led to it
EmptyTrialData == [ordered_list_of_events |-> <<>>, visited |-> <<>>]

\* bpod.add_state
State(n, timer, conditions, outputs) ==
    [ state_name              |-> n,
      state_timer             |-> timer,
      state_change_conditions |-> conditions,
      output_actions          |-> outputs ]

\* one-entry and multi-entry transition tables
On(e, target) == [x \in {e} |-> target]

StateNames(b) == {b.states[i].state_name : i \in DOMAIN b.states}

StateNamed(b, n) == CHOOSE s \in Range(b.states) : s.state_name = n

Targets(s) == {s.state_change_conditions[e] : e \in DOMAIN s.state_change_conditions}

-----------------------------------------------------------------------------
(* Habituation.start and FollowTheLight.start *)

\* mutant: only the lookup of port 1 is taken to fail
CalibrationFails_port_1_only == ~Calibrated(1)

CalibrationFails == ~Calibrated(1) \/ ~Calibrated(3)

\* the two get_valve_time calls, in order; the first failing one raises
LookupValveTimes(s, st) ==
    IF ~Calibrated(1) THEN s
    ELSE IF ~Calibrated(3)
    THEN [s EXCEPT !.left_valve_opening_time =
                       get_valve_time(1, st.reward_amount_ml)]
    ELSE [s EXCEPT !.left_valve_opening_time =
                       get_valve_time(1, st.reward_amount_ml),
                   !.right_valve_opening_time =
                       get_valve_time(3, st.reward_amount_ml)]

\* mutant of punish_condition: no stage punishes
punish_condition_never(stage) == "stimulus_state"

\* mutants of punish_condition: the stage is ignored, or only stage 2 punishes
punish_condition_always(stage) == "punish_state"

punish_condition_only_two(stage) ==
    IF stage = 2 THEN "punish_state" ELSE "stimulus_state"

punish_condition(stage) ==
    IF stage = 1 THEN "stimulus_state" ELSE "punish_state"

Habituation_start ==
    /\ pc = "start"
    /\ name = "Habituation"
    /\ self' = LookupValveTimes(self, settings)
    /\ IF CalibrationFails
       THEN pc' = "failed" /\ error' = "CalibrationError"
       ELSE pc' = "create" /\ error' = error
    /\ UNCHANGED <<settings, trainingVars, name, bpod, trial_data, registered,
                   current_trial, water_calibration>>

FollowTheLight_start ==
    /\ pc = "start"
    /\ name = "FollowTheLight"
    /\ IF CalibrationFails
       THEN /\ self' = LookupValveTimes(self, settings)
            /\ pc' = "failed"
            /\ error' = "CalibrationError"
       ELSE /\ self' = [LookupValveTimes(self, settings) EXCEPT
                           !.punish_condition = punish_condition(settings.stage)]
            /\ pc' = "create"
            /\ error' = error
    /\ UNCHANGED <<settings, trainingVars, name, bpod, trial_data, registered,
                   current_trial, water_calibration>>

\* Simple.start reads settings.delay, settings.mylist and settings.next_task
Simple_start ==
    /\ pc = "start"
    /\ name = "Simple"
    /\ self' = [self EXCEPT !.hola = TRUE]
    /\ IF {"delay", "mylist", "next_task"} \subseteq DOMAIN settings
       THEN pc' = "create" /\ error' = error
       ELSE pc' = "failed" /\ error' = "AttributeError"
    /\ UNCHANGED <<settings, trainingVars, name, bpod, trial_data, registered,
                   current_trial, water_calibration>>

-----------------------------------------------------------------------------
(* Habituation.create_trial *)

Habituation_ready_to_initiate(st) ==
    State("ready_to_initiate", 0,
          On("Port2In", "stimulus_state"),
          << <<"PWM2", st.light_intensity_high>> >>)

Habituation_stimulus_state(st) ==
    State("stimulus_state", 0,
          [e \in {"Port1In", "Port3In"} |->
              IF e = "Port1In" THEN "reward_state_left"
                               ELSE "reward_state_right"],
          << <<"PWM1", st.light_intensity_high>>,
             <<"PWM3", st.light_intensity_high>> >>)

Habituation_reward_state_left(s) ==
    State("reward_state_left", s.left_valve_opening_time,
          On("Tup", "exit"),
          << <<"Valve1">> >>)

\* mutant: the right reward state keeps the left valve's opening time
Habituation_reward_state_right_left_time(s) ==
    State("reward_state_right", s.left_valve_opening_time,
          On("Tup", "exit"),
          << <<"Valve3">> >>)

Habituation_reward_state_right(s) ==
    State("reward_state_right", s.right_valve_opening_time,
          On("Tup", "exit"),
          << <<"Valve3">> >>)

\* the states in the order create_trial adds them
HabituationStates(s, st) ==
    << Habituation_ready_to_initiate(st),
       Habituation_stimulus_state(st),
       Habituation_reward_state_left(s),
       Habituation_reward_state_right(s) >>

\* the state machine is sent to the bpod and run from the first state added
SendAndRun(states) ==
    [states |-> states, current |-> states[1].state_name]

NewTrialData(states) ==
    [ordered_list_of_events |-> <<>>,
     visited                |-> << <<states[1].state_name, "start">> >>]

Habituation_create_trial ==
    /\ pc = "create"
    /\ name = "Habituation"
    /\ current_trial <= MaxTrials
    /\ bpod' = SendAndRun(HabituationStates(self, settings))
    /\ trial_data' = NewTrialData(HabituationStates(self, settings))
    /\ registered' = <<>>
    /\ pc' = "run"
    /\ UNCHANGED <<settings, trainingVars, name, self, current_trial,
                   water_calibration, error>>

-----------------------------------------------------------------------------
(* FollowTheLight.create_trial *)

\* lines 74-101: the attributes set from the trial type
LeftTrial(s, st, tt) ==
    [s EXCEPT
        !.this_trial_type = tt,
        !.stimulus_state_output =
            << <<"PWM1", st.light_intensity_high>> >> \o
            (IF HasHard(tt) THEN << <<"PWM3", st.light_intensity_low>> >>
                            ELSE <<>>),
        !.left_poke_action = "reward_state",
        !.valve_to_open = <<"Valve1">>,
        !.valve_opening_time = s.left_valve_opening_time,
        !.right_poke_action = s.punish_condition]

\* mutant: the right trial keeps the left valve's opening time
RightTrial_left_time(s, st, tt) ==
    [s EXCEPT
        !.this_trial_type = tt,
        !.stimulus_state_output =
            << <<"PWM3", st.light_intensity_high>> >> \o
            (IF HasHard(tt) THEN << <<"PWM1", st.light_intensity_low>> >>
                            ELSE <<>>),
        !.left_poke_action = s.punish_condition,
        !.right_poke_action = "reward_state",
        !.valve_to_open = <<"Valve3">>,
        !.valve_opening_time = s.left_valve_opening_time]

RightTrial(s, st, tt) ==
    [s EXCEPT
        !.this_trial_type = tt,
        !.stimulus_state_output =
            << <<"PWM3", st.light_intensity_high>> >> \o
            (IF HasHard(tt) THEN << <<"PWM1", st.light_intensity_low>> >>
                            ELSE <<>>),
        !.left_poke_action = s.punish_condition,
        !.right_poke_action = "reward_state",
        !.valve_to_open = <<"Valve3">>,
        !.valve_opening_time = s.right_valve_opening_time]

TrialSetup(s, st, tt) ==
    IF HasLeft(tt) THEN LeftTrial(s, st, tt)
    ELSE IF HasRight(tt) THEN RightTrial(s, st, tt)
    ELSE [s EXCEPT !.this_trial_type = tt, !.stimulus_state_output = <<>>]

\* lines 104-147: the states added, s being the task after TrialSetup
ready_to_initiate(st) ==
    State("ready_to_initiate", 0,
          On("Port2In", "stimulus_state"),
          << <<"PWM2", st.light_intensity_high>> >>)

stimulus_state(s, st) ==
    State("stimulus_state", st.timer_for_response,
          [e \in {"Port1In", "Port3In", "Tup"} |->
              CASE e = "Port1In" -> s.left_poke_action
                [] e = "Port3In" -> s.right_poke_action
                [] e = "Tup"     -> "exit"],
          s.stimulus_state_output)

reward_state(s) ==
    State("reward_state", s.valve_opening_time,
          On("Tup", "iti_state"),
          <<s.valve_to_open>>)

punish_state(st) ==
    State("punish_state", st.punishment_time,
          On("Tup", "iti_state"),
          <<>>)

\* mutant: the inter-trial state is added under another name
iti_state_renamed(st) ==
    State("iti", st.iti_time,
          On("Tup", "exit"),
          <<>>)

iti_state(st) ==
    State("iti_state", st.iti_time,
          On("Tup", "exit"),
          <<>>)

FollowTheLightStates(s, st) ==
    << ready_to_initiate(st),
       stimulus_state(s, st),
       reward_state(s),
       punish_state(st),
       iti_state(st) >>

\* the settings keys create_trial reads
FollowTheLightKeys ==
    {"trial_types", "light_intensity_high", "light_intensity_low",
     "timer_for_response", "punishment_time", "iti_time"}

FollowTheLight_create_trial ==
    /\ pc = "create"
    /\ name = "FollowTheLight"
    /\ current_trial <= MaxTrials
    /\ \E i \in DOMAIN settings.trial_types :
         LET s == TrialSetup(self, settings, settings.trial_types[i])
         IN  /\ self' = s
             /\ IF FollowTheLightKeys \subseteq DOMAIN settings
                THEN /\ bpod' = SendAndRun(FollowTheLightStates(s, settings))
                     /\ trial_data' =
                            NewTrialData(FollowTheLightStates(s, settings))
                     /\ pc' = "run"
                     /\ error' = error
                ELSE \* reading the missing key raises after the first add_state
                     /\ bpod' = [states  |-> <<ready_to_initiate(settings)>>,
                                 current |-> "none"]
                     /\ trial_data' = EmptyTrialData
                     /\ pc' = "failed"
                     /\ error' = "AttributeError"
    /\ registered' = <<>>
    /\ UNCHANGED <<settings, trainingVars, name, current_trial, water_calibration>>

-----------------------------------------------------------------------------
(* Simple.create_trial *)

SimpleStates ==
    << State("one", 1, On("Tup", "two"), << <<"PWM1", 255>> >>),
       State("two", 0, On("Tup", "exit"), <<>>) >>

Simple_create_trial ==
    /\ pc = "create"
    /\ name = "Simple"
    /\ current_trial <= MaxTrials
    /\ self' = [self EXCEPT !.delay = 2]
    /\ settings' = WithKey(settings, "delay", 3)
    /\ bpod' = SendAndRun(SimpleStates)
    /\ trial_data' = NewTrialData(SimpleStates)
    /\ registered' = <<>>
    /\ pc' = "run"
    /\ UNCHANGED <<trainingVars, name, current_trial, water_calibration, error>>

-----------------------------------------------------------------------------
(* The state machine executor: runs the graph from its first state, logs     *)
(* every event, follows the transition the current state has for the event. *)

PortEntries(log) == Cardinality({i \in DOMAIN log : log[i] \in PortEvents})

\* the current state has a transition for event e
Fires(b, e) == e \in DOMAIN StateNamed(b, b.current).state_change_conditions

\* where event e leads from the current state (nowhere when it has no entry)
Transition(b, e) ==
    IF Fires(b, e)
    THEN StateNamed(b, b.current).state_change_conditions[e]
    ELSE b.current

\* Tup is reported when the positive timer of the current state elapses
TimerRuns(b) == StateNamed(b, b.current).state_timer > 0

Occurs(e) ==
    LET next == Transition(bpod, e)
    IN  /\ trial_data' =
              [trial_data EXCEPT
                 !.ordered_list_of_events = Append(@, e),
                 !.visited = IF Fires(bpod, e) THEN Append(@, <<next, e>>)
                                               ELSE @]
        /\ bpod' = [bpod EXCEPT !.current = next]
        /\ pc' = IF next = "exit" THEN "after" ELSE "run"
        /\ UNCHANGED <<settings, trainingVars, name, self, registered,
                       current_trial, water_calibration, error>>

PortIn ==
    /\ pc = "run"
    /\ PortEntries(trial_data.ordered_list_of_events) < MaxEvents
    /\ \E e \in PortEvents : Occurs(e)

Tup ==
    /\ pc = "run"
    /\ TimerRuns(bpod)
    /\ Occurs("Tup")

-----------------------------------------------------------------------------
(* after_trial and close *)

\* mutant: the targets are tried in their own order
find_first_occurrence_by_targets(event_list_, targets_) ==
    LET hits == {k \in DOMAIN targets_ : targets_[k] \in Range(event_list_)}
    IN  IF hits = {} THEN "NaN"
        ELSE targets_[CHOOSE k \in hits : \A m \in hits : k <= m]

RECURSIVE find_first_occurrence(_, _)
find_first_occurrence(event_list_, targets_) ==
    IF event_list_ = <<>> THEN "NaN"
    ELSE IF Head(event_list_) \in Range(targets_) THEN Head(event_list_)
    ELSE find_first_occurrence(Tail(event_list_), targets_)

\* lines 161-170 of follow_the_light.py
Correct(first_poke, tt) ==
    IF first_poke = "Port1In" /\ HasLeft(tt) THEN TRUE
    ELSE IF first_poke = "Port3In" /\ HasRight(tt) THEN TRUE
    ELSE FALSE

Habituation_after_trial(st) ==
    << <<"water", st.reward_amount_ml>> >>

FollowTheLight_after_trial(s, st, td) ==
    LET first_poke == find_first_occurrence(td.ordered_list_of_events,
                                            <<"Port1In", "Port3In">>)
    IN  << <<"water", st.reward_amount_ml>>,
           <<"trial_type", s.this_trial_type>>,
           <<"correct", Correct(first_poke, s.this_trial_type)>> >>

Simple_after_trial == <<>>

\* the task's after_trial, called once the state machine has reached exit
after_trial ==
    /\ pc = "after"
    /\ registered' =
          CASE name = "Habituation"    -> Habituation_after_trial(settings)
            [] name = "FollowTheLight" ->
                   FollowTheLight_after_trial(self, settings, trial_data)
            [] name = "Simple"         -> Simple_after_trial
    /\ current_trial' = current_trial + 1
    /\ pc' = "create"
    /\ UNCHANGED <<settings, trainingVars, name, self, bpod, trial_data,
                   water_calibration, error>>

\* the run stops at a trial boundary; close does nothing in the three tasks
close ==
    /\ pc = "create"
    /\ pc' = "closed"
    /\ UNCHANGED <<settings, trainingVars, name, self, bpod, trial_data,
                   registered, current_trial, water_calibration, error>>

\* a task is selected and a fresh task object is created
run_task ==
    /\ pc \in {"idle", "closed"}
    /\ \E T \in Tasks : name' = T
    /\ pc' = "start"
    /\ self' = NoAttributes
    /\ bpod' = EmptyBpod
    /\ trial_data' = EmptyTrialData
    /\ registered' = <<>>
    /\ current_trial' = 1
    /\ error' = "none"
    /\ UNCHANGED <<settings, trainingVars, water_calibration>>

-----------------------------------------------------------------------------
(* The task life cycle, from any settings record the subject may hold *)

\* the volumes the training protocol assigns (lines 57, 101, 126)
RewardAmounts == {default_reward_amount_ml, 7, 5}

TaskIdle ==
    /\ name = "none"
    /\ pc = "idle"
    /\ self = NoAttributes
    /\ bpod = EmptyBpod
    /\ trial_data = EmptyTrialData
    /\ registered = <<>>
    /\ current_trial = 1
    /\ error = "none"
    /\ event_list = <<>>
    /\ targets = <<>>
    /\ found = "unset"

Init ==
    /\ \E stage \in 1..MaxStage, reward \in RewardAmounts,
          ks \in {{}, ExtraKeys} :
          settings = WithExtras([default_training_settings EXCEPT
                                    !.stage = stage,
                                    !.reward_amount_ml = reward], ks)
    /\ \E ports \in SUBSET {1, 3} :
          water_calibration = [p \in ports |-> CalibrationCoefficient(p)]
    /\ df = <<>>
    /\ last_task = "none"
    /\ tpc = "idle"
    /\ TaskIdle

Next ==
    \/ run_task
    \/ Habituation_start
    \/ FollowTheLight_start
    \/ Simple_start
    \/ Habituation_create_trial
    \/ FollowTheLight_create_trial
    \/ Simple_create_trial
    \/ PortIn
    \/ Tup
    \/ after_trial
    \/ close

Spec == Init /\ [][Next]_vars

-----------------------------------------------------------------------------
(* TrainingProtocol.update_training_settings *)

\* trials a session needs, and the accuracy it needs, in percent
MinTrials == 100

MinPerformance == 85

reward_after_habituation == 7

reward_after_stage_1 == 5

next_stage == 2

\* self.df[self.df["task"] == T]: the sessions of task T, oldest first
SessionsOf(d, T) == SelectSeq(d, LAMBDA r : r.task = T)

\* df_session["trial"].iloc[-1]: the number of the last trial of the session
Trials(r) == r.trial

\* df_session["correct"].mean() >= 0.85, the mean being correct / trial
PerformanceMet(r) == 100 * r.correct >= MinPerformance * r.trial

\* mutant: the trials of all Habituation sessions are added up
HabituationCriterion_cumulative(d) ==
    LET h == SessionsOf(d, "Habituation")
        sum[i \in 0..Len(h)] == IF i = 0 THEN 0 ELSE sum[i - 1] + Trials(h[i])
    IN  /\ Len(h) >= 2
        /\ sum[Len(h)] >= MinTrials

\* lines 90-99
HabituationCriterion(d) ==
    LET h == SessionsOf(d, "Habituation")
    IN  /\ Len(h) >= 2
        /\ Trials(h[Len(h)]) >= MinTrials

\* mutant: the accuracy is taken over the trials of both sessions together
FollowTheLightCriterion_pooled(d) ==
    LET f == SessionsOf(d, "FollowTheLight")
    IN  /\ Len(f) >= 2
        /\ 100 * (f[Len(f)].correct + f[Len(f) - 1].correct)
              >= MinPerformance * (f[Len(f)].trial + f[Len(f) - 1].trial)
        /\ Trials(f[Len(f)]) >= MinTrials
        /\ Trials(f[Len(f) - 1]) >= MinTrials

\* lines 105-124
FollowTheLightCriterion(d) ==
    LET f == SessionsOf(d, "FollowTheLight")
    IN  /\ Len(f) >= 2
        /\ PerformanceMet(f[Len(f)])
        /\ PerformanceMet(f[Len(f) - 1])
        /\ Trials(f[Len(f)]) >= MinTrials
        /\ Trials(f[Len(f) - 1]) >= MinTrials

\* mutant: the task is chosen from the last session whatever it was before
Rule1_regress(st, d) ==
    IF HabituationCriterion(d)
    THEN [st EXCEPT !.next_task = "FollowTheLight",
                    !.reward_amount_ml = reward_after_habituation]
    ELSE [st EXCEPT !.next_task = "Habituation"]

\* lines 88-101
Rule1(st, d) ==
    IF HabituationCriterion(d)
    THEN [st EXCEPT !.next_task = "FollowTheLight",
                    !.reward_amount_ml = reward_after_habituation]
    ELSE st

\* mutant: the reward is lowered outside the test of the thresholds
Rule2_dedent(st, d) ==
    IF Len(SessionsOf(d, "FollowTheLight")) >= 2
    THEN IF FollowTheLightCriterion(d)
         THEN [st EXCEPT !.stage = next_stage,
                         !.reward_amount_ml = reward_after_stage_1]
         ELSE [st EXCEPT !.reward_amount_ml = reward_after_stage_1]
    ELSE st

\* mutant: the stage is advanced from the stage the record holds
Rule2_relative(st, d) ==
    IF FollowTheLightCriterion(d)
    THEN [st EXCEPT !.stage = st.stage + 1,
                    !.reward_amount_ml = reward_after_stage_1]
    ELSE st

\* lines 103-126
Rule2(st, d) ==
    IF FollowTheLightCriterion(d)
    THEN [st EXCEPT !.stage = next_stage,
                    !.reward_amount_ml = reward_after_stage_1]
    ELSE st

\* the settings update_training_settings leaves, given the settings before,
\* the task that just finished and the history
updated_settings(st, lt, d) ==
    IF lt = "Habituation" THEN Rule1(st, d)
    ELSE IF lt = "FollowTheLight" THEN Rule2(st, d)
    ELSE st

update_training_settings ==
    /\ tpc = "update"
    /\ settings' = updated_settings(settings, last_task, df)
    /\ tpc' = "idle"
    /\ UNCHANGED <<df, last_task, taskVars>>

\* update_training_settings invoked once more, with no session in between
update_again ==
    /\ tpc = "idle"
    /\ last_task # "none"
    /\ settings' = updated_settings(settings, last_task, df)
    /\ tpc' = "again"
    /\ UNCHANGED <<df, last_task, taskVars>>

\* What a finished session leaves in the history: <<trials, correct trials>>.
\* Only FollowTheLight registers "correct".
Outcomes(T) ==
    CASE T = "Habituation"    -> {<<50, 0>>, <<99, 0>>, <<100, 0>>}
      [] T = "FollowTheLight" -> {<<100, 85>>, <<100, 84>>, <<99, 99>>,
                                  <<100, 90>>, <<100, 80>>}
      [] T = "Simple"         -> {<<5, 0>>}

\* a session of task T finishes: its record joins the history, then the
\* training protocol is run
SessionEnds ==
    /\ tpc \in {"idle", "again"}
    /\ Len(df) < MaxSessions
    /\ \E T \in Tasks :
          \E o \in Outcomes(T) :
             /\ df' = Append(df, [task |-> T, trial |-> o[1], correct |-> o[2]])
             /\ last_task' = T
    /\ tpc' = "update"
    /\ UNCHANGED <<settings, taskVars>>

\* The training protocol over the sessions of a new subject
InitTraining ==
    /\ settings = default_training_settings
    /\ water_calibration = [p \in {1, 3} |-> CalibrationCoefficient(p)]
    /\ df = <<>>
    /\ last_task = "none"
    /\ tpc = "idle"
    /\ TaskIdle

NextTraining ==
    \/ SessionEnds
    \/ update_training_settings
    \/ update_again

SpecTraining == InitTraining /\ [][NextTraining]_vars

-----------------------------------------------------------------------------
(* Properties of the trial graphs *)

\* create_trial has returned and the graph it built is in the bpod
Built == error = "none" /\ bpod.states # <<>>

Successors(b, n) ==
    IF n \in StateNames(b) THEN Targets(StateNamed(b, n)) ELSE {}

RECURSIVE Closure(_, _)
Closure(b, S) ==
    LET T == S \cup UNION {Successors(b, n) : n \in S}
    IN  IF T = S THEN S ELSE Closure(b, T)

\* the names reachable from state n in one or more transitions
ReachableFrom(b, n) == Closure(b, Successors(b, n))

\* the loop-free paths from state n to the terminal marker
RECURSIVE PathsFrom(_, _, _)
PathsFrom(b, n, seen) ==
    IF n = "exit" THEN {<<"exit">>}
    ELSE IF n \in seen \/ n \notin StateNames(b) THEN {}
    ELSE {<<n>> \o p : p \in UNION {PathsFrom(b, t, seen \cup {n}) :
                                       t \in Targets(StateNamed(b, n))}}

TerminalPaths(b) == PathsFrom(b, b.states[1].state_name, {})

\* the states entered so far in the current trial
Entered == {trial_data.visited[i][1] : i \in DOMAIN trial_data.visited}

CorrectPort(tt) == IF HasLeft(tt) THEN "Port1In" ELSE "Port3In"

IncorrectPort(tt) == IF HasLeft(tt) THEN "Port3In" ELSE "Port1In"

CorrectSide(tt) == IF HasLeft(tt) THEN 1 ELSE 3

\* the intensities at which a list of output actions lights channel ch
Lit(outputs, ch) ==
    {o[2] : o \in {x \in Range(outputs) : Len(x) = 2 /\ x[1] = ch}}

\* C1: in every graph built by Habituation.create_trial and
\* FollowTheLight.create_trial, for every stage and trial type, every
\* transition target is "exit" or the name of a state of the same graph.
C1_NoDanglingEdges ==
    (name \in {"Habituation", "FollowTheLight"} /\ Built) =>
        \A s \in Range(bpod.states) :
            Targets(s) \subseteq StateNames(bpod) \cup {"exit"}

C1_Witness ==
    /\ name = "FollowTheLight"
    /\ pc = "run"
    /\ settings.stage = 1
    /\ self.this_trial_type = "right_hard"
    /\ Len(bpod.states) = 5
    /\ bpod.current = "stimulus_state"

\* C2: in a FollowTheLight session of stage 1, for every trial type, the
\* incorrect side port leads from stimulus_state back to stimulus_state, and
\* punish_state is neither reachable from stimulus_state in the graph nor
\* entered under any sequence of events.
C2_Stage1NoPunish ==
    (name = "FollowTheLight" /\ Built /\ settings.stage = 1) =>
        /\ StateNamed(bpod, "stimulus_state")
              .state_change_conditions[IncorrectPort(self.this_trial_type)]
             = "stimulus_state"
        /\ "punish_state" \notin ReachableFrom(bpod, "stimulus_state")
        /\ "punish_state" \notin Entered
        /\ bpod.current # "punish_state"

C2_Witness ==
    /\ name = "FollowTheLight"
    /\ settings.stage = 1
    /\ pc = "run"
    /\ \E i \in DOMAIN trial_data.visited :
          trial_data.visited[i] =
              <<"stimulus_state", IncorrectPort(self.this_trial_type)>>

\* C3: in a FollowTheLight session of stage >= 2, for every trial type, the
\* correct side port leads from stimulus_state to reward_state and the
\* incorrect one to punish_state, so both are reachable from stimulus_state.
C3_Stage2RewardAndPunish ==
    (name = "FollowTheLight" /\ Built /\ settings.stage >= 2) =>
        LET stim == StateNamed(bpod, "stimulus_state").state_change_conditions
        IN  /\ stim[CorrectPort(self.this_trial_type)] = "reward_state"
            /\ stim[IncorrectPort(self.this_trial_type)] = "punish_state"
            /\ {"reward_state", "punish_state"} \subseteq
                   ReachableFrom(bpod, "stimulus_state") \cap StateNames(bpod)

C3_Witness ==
    /\ name = "FollowTheLight"
    /\ settings.stage = 3
    /\ bpod.current = "punish_state"
    /\ trial_data.visited[Len(trial_data.visited)] =
           <<"punish_state", IncorrectPort(self.this_trial_type)>>

\* C4: the Habituation graph has exactly two paths to exit, one through each
\* reward state; each reward state opens the valve of its side for the
\* calibrated (positive) duration of that side; there is no punishment state;
\* a trial that reached exit entered exactly the reward state of the side port
\* that was entered in stimulus_state.
C4_HabituationPaths ==
    (name = "Habituation" /\ Built) =>
        LET left  == StateNamed(bpod, "reward_state_left")
            right == StateNamed(bpod, "reward_state_right")
        IN  /\ TerminalPaths(bpod) =
                 { <<"ready_to_initiate", "stimulus_state",
                     "reward_state_left", "exit">>,
                   <<"ready_to_initiate", "stimulus_state",
                     "reward_state_right", "exit">> }
            /\ StateNames(bpod) =
                 {"ready_to_initiate", "stimulus_state",
                  "reward_state_left", "reward_state_right"}
            /\ left.output_actions = << <<"Valve1">> >>
            /\ left.state_timer = get_valve_time(1, settings.reward_amount_ml)
            /\ left.state_timer > 0
            /\ right.output_actions = << <<"Valve3">> >>
            /\ right.state_timer = get_valve_time(3, settings.reward_amount_ml)
            /\ right.state_timer > 0
            /\ pc = "after" =>
                 trial_data.visited \in
                   { << <<"ready_to_initiate", "start">>,
                        <<"stimulus_state", "Port2In">>,
                        <<"reward_state_left", "Port1In">>,
                        <<"exit", "Tup">> >>,
                     << <<"ready_to_initiate", "start">>,
                        <<"stimulus_state", "Port2In">>,
                        <<"reward_state_right", "Port3In">>,
                        <<"exit", "Tup">> >> }

C4_Witness ==
    /\ name = "Habituation"
    /\ pc = "after"
    /\ "reward_state_right" \in Entered
    /\ settings.reward_amount_ml = 5

-----------------------------------------------------------------------------
(* Properties of the training protocol *)

\* the positions in the history of the sessions of task T
Recorded(T) == {i \in DOMAIN df : df[i].task = T}

Latest(S) == CHOOSE i \in S : \A j \in S : j <= i

\* the most recent session of task T and the one before it
MostRecent(T) == df[Latest(Recorded(T))]

Previous(T) == df[Latest(Recorded(T) \ {Latest(Recorded(T))})]

\* a session with at least 100 trials and an accuracy of at least 0.85
ClearsTheBar(r) == r.trial >= 100 /\ 20 * r.correct >= 17 * r.trial

SwitchDue ==
    /\ Cardinality(Recorded("Habituation")) >= 2
    /\ MostRecent("Habituation").trial >= 100

AdvanceDue ==
    /\ Cardinality(Recorded("FollowTheLight")) >= 2
    /\ ClearsTheBar(MostRecent("FollowTheLight"))
    /\ ClearsTheBar(Previous("FollowTheLight"))

NoRuleFires ==
    CASE last_task = "Habituation"    -> ~SwitchDue
      [] last_task = "FollowTheLight" -> ~AdvanceDue
      [] OTHER                        -> TRUE

\* C8: the update never changes the history, and when no rule fires (another
\* task, fewer than 2 sessions of the task, a threshold missed) it changes no
\* setting and raises no error.
C8_NoRuleNoChange ==
    [][update_training_settings =>
          /\ df' = df
          /\ NoRuleFires => (settings' = settings /\ error' = "none")]_vars

C8_Witness ==
    /\ tpc = "idle"
    /\ last_task = "FollowTheLight"
    /\ Cardinality(Recorded("FollowTheLight")) >= 2
    /\ MostRecent("FollowTheLight").correct = 84
    /\ ClearsTheBar(Previous("FollowTheLight"))
    /\ settings = default_training_settings

\* C9: from the default settings, over any sequence of sessions, the stage
\* never decreases and next_task never goes from FollowTheLight back to
\* Habituation.
C9_Ratchet ==
    [][/\ settings'.stage >= settings.stage
       /\ settings.next_task = "FollowTheLight" =>
             settings'.next_task = "FollowTheLight"]_vars

C9_Witness ==
    /\ tpc = "idle"
    /\ last_task = "Habituation"
    /\ df[Len(df)].trial = 50
    /\ settings.next_task = "FollowTheLight"

\* C10: whenever the update switches the task or advances the stage, the
\* reward volume after the update is strictly lower than before it.
C10_RewardLowered ==
    [][(/\ update_training_settings
        /\ \/ settings'.next_task # settings.next_task
           \/ settings'.stage > settings.stage) =>
          settings'.reward_amount_ml < settings.reward_amount_ml]_vars

\* C11: invoking the update a second time on the same history, with no session
\* in between, leaves the settings as the first invocation left them.
C11_Idempotent ==
    [][update_again => settings' = settings]_vars

\* both invocations found rule 2 due
C11_Witness ==
    /\ tpc = "again"
    /\ last_task = "FollowTheLight"
    /\ AdvanceDue
    /\ settings.stage = 2
    /\ settings.reward_amount_ml = 5

\* C12: no step of a task run (start, create_trial, the trial itself,
\* after_trial, close) writes the Settings record, for Habituation,
\* FollowTheLight and Simple.
C12_SettingsReadOnly ==
    [][settings' = settings]_vars

\* C13: when port 1 or port 3 has no calibration, a Habituation or
\* FollowTheLight run ends in start with the calibration error: no state is
\* ever added to the executor, no trial runs and nothing is registered.
C13_NoGraphWithoutCalibration ==
    (/\ name \in {"Habituation", "FollowTheLight"}
     /\ ~({1, 3} \subseteq DOMAIN water_calibration)) =>
        /\ pc \in {"start", "failed"}
        /\ pc = "failed" => error = "CalibrationError"
        /\ bpod = EmptyBpod
        /\ trial_data = EmptyTrialData
        /\ registered = <<>>
        /\ current_trial = 1

\* port 1 is calibrated, the lookup of port 3 fails
C13_Witness ==
    /\ name = "FollowTheLight"
    /\ DOMAIN water_calibration = {1}
    /\ pc = "failed"
    /\ error = "CalibrationError"
    /\ self.right_valve_opening_time = "unset"

-----------------------------------------------------------------------------
(* Properties of the trial records *)

SidePokes(log) == {i \in DOMAIN log : log[i] \in {"Port1In", "Port3In"}}

\* the first side-port entry of an event log, "none" when it has none
FirstSidePoke(log) ==
    IF SidePokes(log) = {} THEN "none"
    ELSE log[CHOOSE i \in SidePokes(log) : \A j \in SidePokes(log) : i <= j]

\* the values registered under key k for the last trial
Registered(k) ==
    {registered[i][2] : i \in {j \in DOMAIN registered : registered[j][1] = k}}

\* C14 as claimed: the record tells three outcomes apart, correct, incorrect
\* and, for a log without side-port entry, an omitted value that is neither.
C14_ThreeOutcomes ==
    (name = "FollowTheLight" /\ registered # <<>>) =>
        LET fp == FirstSidePoke(trial_data.ordered_list_of_events)
            tt == self.this_trial_type
        IN  /\ fp = CorrectPort(tt) => Registered("correct") = {TRUE}
            /\ fp = IncorrectPort(tt) => Registered("correct") = {FALSE}
            /\ fp = "none" => /\ Registered("correct") # {}
                              /\ Registered("correct") \cap {TRUE, FALSE} = {}

\* the states that open a valve
RewardStates == {s.state_name : s \in {x \in Range(bpod.states) :
                    \E o \in Range(x.output_actions) : Len(o) = 1}}

\* C16 as claimed: after every trial of Habituation and FollowTheLight
\* exactly one water value is registered, and it is the volume delivered in
\* the trial: reward_amount_ml when a reward state was entered, zero when
\* the trial ended without one.
C16_WaterDelivered ==
    (name \in {"Habituation", "FollowTheLight"} /\ registered # <<>>) =>
        /\ Cardinality({j \in DOMAIN registered :
                            registered[j][1] = "water"}) = 1
        /\ Registered("water") =
              {IF Entered \cap RewardStates # {}
                  THEN settings.reward_amount_ml ELSE 0}

\* C17 as claimed: every state of every built graph can be left, by an
\* event transition or by the timeout transition with a positive timer.
C17_EveryStateCanBeLeft ==
    Built =>
        \A s \in Range(bpod.states) :
            \/ DOMAIN s.state_change_conditions \ {"Tup"} # {}
            \/ /\ "Tup" \in DOMAIN s.state_change_conditions
               /\ s.state_timer > 0

\* C18 as claimed: a task handed a settings record with the keys of
\* default_training_settings reads no key the record lacks.
C18_KeysAreDefaultKeys ==
    (/\ name \in {"Habituation", "FollowTheLight"}
     /\ DOMAIN default_training_settings \subseteq DOMAIN settings
     /\ DOMAIN settings \cap ExtraKeys = {}) =>
        error # "AttributeError"

\* the side channels a list of output actions lights
SideChannelsLit(outputs) ==
    {ch \in {"PWM1", "PWM3"} : Lit(outputs, ch) # {}}

\* C19 as claimed: in stage 1 stimulus_state lights one side port only,
\* whatever the trial type drawn; both are lit in stage 2 only.
C19_OneLightInStage1 ==
    (name = "FollowTheLight" /\ Built) =>
        LET lit == SideChannelsLit(StateNamed(bpod, "stimulus_state").output_actions)
        IN  /\ settings.stage = 1 => Cardinality(lit) = 1
            /\ Cardinality(lit) = 2 => settings.stage = 2

-----------------------------------------------------------------------------
(* find_first_occurrence on its own: every event list and target list *)

\* the names a Bpod event log holds
EventNames == PortEvents \cup {"Tup"}

SeqsUpTo(S, n) == UNION {[1..k -> S] : k \in 0..n}

InitFind ==
    /\ settings = default_training_settings
    /\ water_calibration = [p \in {1, 3} |-> CalibrationCoefficient(p)]
    /\ df = <<>>
    /\ last_task = "none"
    /\ tpc = "idle"
    /\ name = "FollowTheLight"
    /\ pc = "after"
    /\ self = NoAttributes
    /\ bpod = EmptyBpod
    /\ trial_data = EmptyTrialData
    /\ registered = <<>>
    /\ current_trial = 1
    /\ error = "none"
    /\ event_list \in SeqsUpTo(EventNames, MaxLog)
    /\ targets \in SeqsUpTo(EventNames, MaxTargets)
    /\ found = "unset"

call_find_first_occurrence ==
    /\ found = "unset"
    /\ found' = find_first_occurrence(event_list, targets)
    /\ UNCHANGED <<settings, df, last_task, tpc, name, pc, self, bpod,
                   trial_data, registered, current_trial, water_calibration,
                   error, event_list, targets>>

NextFind == call_find_first_occurrence

SpecFind == InitFind /\ [][NextFind]_vars

\* positions of the event list holding one of the targets
Hits(l, t) == {i \in DOMAIN l : \E k \in DOMAIN t : l[i] = t[k]}

\* C15: find_first_occurrence returns the element of event_list of smallest
\* index that belongs to targets, whatever the order of targets; it returns
\* "NaN" exactly when no element belongs to targets; event_list is unchanged.
C15_FirstMatch ==
    [][call_find_first_occurrence =>
        /\ event_list' = event_list
        /\ Hits(event_list, targets) = {} <=> found' = "NaN"
        /\ Hits(event_list, targets) # {} =>
              \E i \in Hits(event_list, targets) :
                  /\ found' = event_list[i]
                  /\ \A j \in Hits(event_list, targets) : i <= j]_vars

\* the log Port2In, Port3In, Port1In scanned for Port1In, Port3In
C15_Witness ==
    /\ event_list = <<"Port2In", "Port3In", "Port1In">>
    /\ targets = <<"Port1In", "Port3In">>
    /\ found = "Port3In"

-----------------------------------------------------------------------------
(* update_training_settings cut short by an exception *)

\* The settings once the first assignment of the firing rule is done:
\* line 100 for the habituation rule, line 125 for the stage rule
first_assignment(st, lt, d) ==
    IF lt = "Habituation" /\ HabituationCriterion(d)
        THEN [st EXCEPT !.next_task = "FollowTheLight"]
    ELSE IF lt = "FollowTheLight" /\ FollowTheLightCriterion(d)
        THEN [st EXCEPT !.stage = next_stage]
    ELSE st

\* a rule fires and the call ends with an exception after `done` of its two
\* assignments; the method writes the live record and has no handler
update_interrupted ==
    /\ tpc = "update"
    /\ \/ last_task = "Habituation" /\ HabituationCriterion(df)
       \/ last_task = "FollowTheLight" /\ FollowTheLightCriterion(df)
    /\ \E done \in 0..1 :
          settings' = IF done = 0 THEN settings
                      ELSE first_assignment(settings, last_task, df)
    /\ tpc' = "failed"
    /\ UNCHANGED <<df, last_task, taskVars>>

NextTrainingFaults ==
    \/ NextTraining
    \/ update_interrupted

SpecTrainingFaults == InitTraining /\ [][NextTrainingFaults]_vars

\* C20 as claimed: when the update of a firing rule ends with a failure, the
\* settings afterwards are the settings before the update.
C20_AllOrNothing == [][update_interrupted => settings' = settings]_vars

-----------------------------------------------------------------------------
(* Termination of a FollowTheLight trial *)

\* The timer of the running state elapses unless the state is left before
SpecLive == Spec /\ WF_vars(Tup)

\* state n is left when its timer elapses
TimesOut(b, n) ==
    /\ n \in StateNames(b)
    /\ "Tup" \in DOMAIN StateNamed(b, n).state_change_conditions
    /\ StateNamed(b, n).state_timer > 0

\* where k timer expiries in a row lead from state n
RECURSIVE TupRun(_, _, _)
TupRun(b, n, k) ==
    IF k = 0 \/ ~TimesOut(b, n) THEN n
    ELSE TupRun(b, StateNamed(b, n).state_change_conditions["Tup"], k - 1)

\* stimulus_state and the states reachable from it
FromStimulus ==
    {"stimulus_state"} \cup (ReachableFrom(bpod, "stimulus_state") \ {"exit"})

\* the states on a cycle of the graph
OnCycle == {n \in StateNames(bpod) : n \in ReachableFrom(bpod, n)}

FirstStimulus ==
    CHOOSE i \in DOMAIN trial_data.visited :
        /\ trial_data.visited[i][1] = "stimulus_state"
        /\ \A j \in 1..(i - 1) : trial_data.visited[j][1] # "stimulus_state"

\* the states entered after stimulus_state was first entered
SinceStimulus ==
    [k \in 1..(Len(trial_data.visited) - FirstStimulus) |->
        trial_data.visited[FirstStimulus + k][1]]

\* a sequence without its entries equal to x
RECURSIVE Without(_, _)
Without(q, x) ==
    IF q = <<>> THEN <<>>
    ELSE IF Head(q) = x THEN Without(Tail(q), x)
    ELSE <<Head(q)>> \o Without(Tail(q), x)

C21_Graph ==
    (name = "FollowTheLight" /\ Built) =>
        /\ \A n \in FromStimulus :
              /\ TimesOut(bpod, n)
              /\ TupRun(bpod, n, 2) = "exit"
              /\ "exit" \in ReachableFrom(bpod, n)
        /\ settings.stage >= 2 =>
              /\ OnCycle = {}
              /\ "stimulus_state" \in Entered =>
                    /\ Len(SinceStimulus) <= 3
                    /\ pc = "after" =>
                          SinceStimulus \in
                              { <<"exit">>,
                                <<"reward_state", "iti_state", "exit">>,
                                <<"punish_state", "iti_state", "exit">> }
        /\ settings.stage = 1 =>
              /\ OnCycle = {"stimulus_state"}
              /\ {e \in DOMAIN StateNamed(bpod, "stimulus_state")
                                   .state_change_conditions :
                      StateNamed(bpod, "stimulus_state")
                          .state_change_conditions[e] = "stimulus_state"}
                  = {IncorrectPort(self.this_trial_type)}
              /\ ("stimulus_state" \in Entered /\ pc = "after") =>
                    Without(SinceStimulus, "stimulus_state") \in
                        { <<"exit">>,
                          <<"reward_state", "iti_state", "exit">> }

C21_Exit ==
    (name = "FollowTheLight" /\ pc = "run" /\ "stimulus_state" \in Entered)
        ~> (pc = "after")

\* C21: in stage >= 2 a trial that entered stimulus_state reaches exit by
\* timer expiries alone, after at most three further states, whatever
\* events occur (stimulus -> exit, stimulus -> reward -> iti -> exit,
\* stimulus -> punish -> iti -> exit). In stage 1 exit stays reachable from
\* every state reachable from stimulus_state and the only loop is the
\* incorrect side port re-entering stimulus_state, so the trial reaches exit
\* once the incorrect port is no longer entered.
C21_Termination == []C21_Graph /\ C21_Exit

\* a punished trial of stage >= 2 at exit, with a port entry that fired no
\* transition after stimulus_state was entered
C21_Witness ==
    /\ name = "FollowTheLight"
    /\ settings.stage >= 2
    /\ pc = "after"
    /\ "stimulus_state" \in Entered
    /\ SinceStimulus = <<"punish_state", "iti_state", "exit">>
    /\ trial_data.ordered_list_of_events[
           Len(trial_data.ordered_list_of_events) - 1] \in PortEvents

-----------------------------------------------------------------------------
(* The recorded outcome against the reward *)

\* C22 as claimed: in stage >= 2 a trial is recorded with correct = True
\* exactly when reward_state was entered in it, for every event log,
\* side-port entries made in ready_to_initiate included.
C22_CorrectIffRewarded ==
    (name = "FollowTheLight" /\ settings.stage >= 2 /\ registered # <<>>) =>
        (Registered("correct") = {TRUE} <=> "reward_state" \in Entered)

====
